---------------------------- MODULE Spec2Model ----------------------------
(***************************************************************************)
(* Model of TalkSmith's multi-GPU batch orchestrator                       *)
(* (src/pipeline/multigpu): LauncherOrchestrator.run, ResourceAllocator,   *)
(* ProcessSpawner / worker_process and LoadBalancer, with the parts of     *)
(* src/pipeline/logger.py they use (BatchLogSummary; with_retry and        *)
(* retry_operation) and the partition and progress tracking of the older   *)
(* launcher src/launcher_multigpu.py.                                      *)
(*                                                                         *)
(* Workers are identified by their position in the requested GPU list (the *)
(* list may repeat an id, and spawn_workers starts one process per list    *)
(* entry).  Durations and processing times are whole time units.           *)
(*                                                                         *)
(* A multiprocessing.Queue is a buffer in the producing process that a     *)
(* feeder thread flushes into a pipe: a get() sees only what has reached   *)
(* the pipe, which is why worker_process can observe Empty on a queue      *)
(* that was populated before the workers were started.  The task queue is  *)
(* modelled with both parts (taskBuffer, taskPipe); a put on the result    *)
(* queue is modelled as reaching the pipe at once.                         *)
(*                                                                         *)
(* Fields of a result message that are only printed (rtf, output_dir) are  *)
(* left out.  The outer "except Exception" of worker_process (lines        *)
(* 139-148) guards the queue get and the tuple unpacking, which cannot     *)
(* raise on the tasks create_task_queue builds, so it has no action.       *)
(***************************************************************************)
EXTENDS Integers, Sequences, FiniteSets, TLC

\* ------------------------------------------------------------------ bounds
MaxFiles == 2
MaxWorkers == 2
MaxDevices == 2
MaxDuration == 1
MaxElapsed == 1
MaxFeed == 3
MaxRecords == 5
MaxPartFiles == 3
MaxSize == 2

AllFiles == <<"a.wav", "b.wav", "c.wav", "d.wav">>

VARIABLES
    gpus,          \* run(gpus=...): the requested GPU id list
    deviceCount,   \* torch.cuda.device_count() (0: no CUDA)
    files,         \* what discover_files returns for input_dir/pattern
    input_dir,     \* what the path input_dir is: a directory, missing, a file
    pc,            \* position of LauncherOrchestrator.run
    exitCode,      \* value run returned (-1: not returned)
    total_files,   \* len(files) as passed to monitor_progress
    taskBuffer,    \* task queue: items put, not yet flushed to the pipe
    taskPipe,      \* task queue: items a get() can see
    resultQueue,   \* result queue
    started,       \* spawn_workers: local list `processes` (worker indexes)
    processes,     \* ProcessSpawner.processes
    wpc,           \* per worker: position of worker_process
    cuda_visible,  \* per worker: os.environ["CUDA_VISIBLE_DEVICES"] (-1: unset)
    task,          \* per worker: local `task`
    pulled,        \* per worker: every message task_queue.get returned, in order
    lb,            \* the LoadBalancer
    terminate_all_called, \* ProcessSpawner.terminate_all has run
    sp_pc,         \* position of a ProcessSpawner method run step by step
    sp_i,          \* that method's loop index into self.processes
    sp_ret,        \* what wait_for_completion returned ("none": not returned)
    signals,       \* per worker: the signals its process was sent, in order
    file_size,     \* st_size of each input file
    partition,     \* what the workload partition functions returned
    retry          \* a call of with_retry's wrapper or of retry_operation

envVars == <<gpus, deviceCount, files, input_dir>>
runVars == <<pc, exitCode, total_files, started, processes, terminate_all_called>>
queueVars == <<taskBuffer, taskPipe, resultQueue>>
workerVars == <<wpc, cuda_visible, task, pulled>>
unitVars == <<sp_pc, sp_i, sp_ret, signals, file_size, partition, retry>>
vars == <<gpus, deviceCount, files, input_dir, pc, exitCode,
          total_files, taskBuffer, taskPipe, resultQueue, started, processes,
          wpc, cuda_visible, task, pulled, lb, terminate_all_called,
          sp_pc, sp_i, sp_ret, signals, file_size, partition, retry>>

\* ----------------------------------------------------------------- helpers
Range(s) == {s[i] : i \in 1..Len(s)}

Workers == 1..Len(gpus)

\* ---------------------------------------------------------------- messages
Sentinel == [kind |-> "sentinel"]
WorkItem(f, i, n) == [kind |-> "item", file |-> f, index |-> i, total |-> n]

SuccessMsg(g, f, d, p) ==
    [type |-> "success", gpu_id |-> g, file |-> f, duration |-> d,
     processing_time |-> p]
FailureMsg(g, f, e) == [type |-> "failure", gpu_id |-> g, file |-> f, error |-> e]
ErrorMsg(g, e) == [type |-> "error", gpu_id |-> g, error |-> e]

\* ------------------------------------------------------- ResourceAllocator
\* for i, file_path in enumerate(files): put((file, i + 1, len(files)))
RECURSIVE PutItems(_, _, _)
PutItems(q, fs, i) ==
    IF i > Len(fs) THEN q
    ELSE PutItems(Append(q, WorkItem(fs[i], i, Len(fs))), fs, i + 1)

\* for _ in range(num_workers): put(None)
RECURSIVE PutSentinels(_, _)
PutSentinels(q, k) ==
    IF k <= 0 THEN q ELSE PutSentinels(Append(q, Sentinel), k - 1)

\* mutant: one sentinel too few
CreateTaskQueue_OneSentinelShort(fs, num_workers) ==
    PutSentinels(PutItems(<<>>, fs, 1), num_workers - 1)

CreateTaskQueue(fs, num_workers) ==
    PutSentinels(PutItems(<<>>, fs, 1), num_workers)

CreateResultQueue == <<>>

\* discover_files: list(input_dir.glob(pattern)).  Path.glob scans the
\* entries of a directory; on a path that does not exist or is not a
\* directory the scan fails inside glob, which yields nothing and raises
\* nothing.
PathKinds == {"directory", "missing", "file"}
DiscoverFiles(kind, entries) == IF kind = "directory" THEN entries ELSE <<>>

\* validate_input_dir: (is_valid, error_message); run does not call it
ValidateInputDir(kind) ==
    IF kind = "missing"
    THEN [is_valid |-> FALSE, error |-> "Input directory not found: {input_dir}"]
    ELSE IF kind # "directory"
    THEN [is_valid |-> FALSE, error |-> "Path is not a directory: {input_dir}"]
    ELSE [is_valid |-> TRUE, error |-> ""]

\* _get_file_size: the byte size of each file of the input directory
FileSize == [f \in Range(AllFiles) |->
                IF f = AllFiles[1] THEN 1
                ELSE IF f = AllFiles[2] THEN 2
                ELSE IF f = AllFiles[3] THEN 2
                ELSE 3]

\* files_with_size.sort(key=size, reverse=True): a stable sort, so x goes
\* behind every element that is at least as large
RECURSIVE InsertBySize(_, _, _)
InsertBySize(x, s, size) ==
    IF s = <<>> THEN <<x>>
    ELSE IF size[Head(s)] >= size[x]
         THEN <<Head(s)>> \o InsertBySize(x, Tail(s), size)
         ELSE <<x>> \o s

\* mutant: the files are dealt in directory order, without the sort
SortBySize_Unsorted(fs, size, done) == done \o fs

RECURSIVE SortBySize(_, _, _)
SortBySize(fs, size, done) ==
    IF fs = <<>> THEN done
    ELSE SortBySize(Tail(fs), size, InsertBySize(Head(fs), done, size))

\* mutant: every device gets the same number of files, the rest is dropped
DistributeWorkload_DropsRemainder(fs, size, num_gpus) ==
    LET sorted_files == SortBySize(fs, size, <<>>)
    IN [k \in 1..num_gpus |->
           [m \in 1..(Len(fs) \div num_gpus) |->
               sorted_files[k + (m - 1) * num_gpus]]]

\* distribute_workload: gpu_workloads[i % num_gpus].append(sorted_files[i]);
\* the result is indexed from 1, so workload k is that of the k-th device
DistributeWorkload(fs, size, num_gpus) ==
    LET sorted_files == SortBySize(fs, size, <<>>)
        share(k) == Cardinality({j \in 1..Len(sorted_files) :
                                    (j - 1) % num_gpus = k - 1})
    IN [k \in 1..num_gpus |->
           [m \in 1..share(k) |-> sorted_files[k + (m - 1) * num_gpus]]]

\* ------------------------------------------------------------- GPUDetector
GetAvailableGpus(n) == 0..(n - 1)

\* mutant: only the first requested id is looked up
ValidateGpus_FirstOnly(requested, n) ==
    /\ requested # <<>>
    /\ GetAvailableGpus(n) # {}
    /\ requested[1] \in GetAvailableGpus(n)

ValidateGpus(requested, n) ==
    /\ requested # <<>>
    /\ GetAvailableGpus(n) # {}
    /\ \A i \in 1..Len(requested) : requested[i] \in GetAvailableGpus(n)

\* ---------------------------------- launcher_multigpu.py: WorkloadBalancer
NewGPUWorkload(gpu_id) == [gpu_id |-> gpu_id, files |-> <<>>, total_size |-> 0]

\* GPUWorkload.add_file
AddFile(w, f, size) ==
    [w EXCEPT !.files = Append(@, f), !.total_size = @ + size[f]]

\* min(workloads, key=lambda w: w.total_size): the first of the smallest
MinWorkload(workloads) ==
    CHOOSE k \in 1..Len(workloads) :
        \A j \in 1..Len(workloads) :
            \/ workloads[k].total_size < workloads[j].total_size
            \/ workloads[k].total_size = workloads[j].total_size /\ k <= j

\* for file_path in sorted_files: min_workload.add_file(file_path)
RECURSIVE GreedyAssign(_, _, _)
GreedyAssign(sorted_files, size, workloads) ==
    IF sorted_files = <<>> THEN workloads
    ELSE LET k == MinWorkload(workloads)
         IN GreedyAssign(Tail(sorted_files), size,
                [workloads EXCEPT ![k] = AddFile(@, Head(sorted_files), size)])

\* balance_by_size: sorted(..., reverse=True) is the same stable sort
BalanceBySize(fs, size, num_gpus) ==
    GreedyAssign(SortBySize(fs, size, <<>>), size,
                 [k \in 1..num_gpus |-> NewGPUWorkload(k - 1)])

\* ------------------------------------------------------------- GPUDetector
\* validate_gpus, the error message: its fixed text, the ids it names and
\* the list of available ids it prints ("" and nothing on success).  The loop
\* returns at the first requested id that is not available.
Reason(text, ids, available) ==
    [text |-> text, ids |-> ids, available |-> available]

ValidateGpusReason(requested, n) ==
    LET available == [i \in 1..n |-> i - 1]
        bad == {i \in 1..Len(requested) : requested[i] \notin Range(available)}
    IN IF requested = <<>>
       THEN Reason("No GPUs specified", <<>>, <<>>)
       ELSE IF available = <<>>
       THEN Reason("No GPUs detected. Make sure CUDA is available.", <<>>, <<>>)
       ELSE IF bad # {}
       THEN LET first == CHOOSE i \in bad : \A j \in bad : i <= j
            IN Reason("GPU {gpu_id} not available. Available GPUs: {available}",
                      <<requested[first]>>, available)
       ELSE Reason("", <<>>, <<>>)

\* --------------------------------------------------------- BatchLogSummary
NewBatchLogSummary == [total |-> 0, successful |-> 0, failed |-> 0, errors |-> <<>>]

RecordSuccess(bs, item) ==
    [bs EXCEPT !.total = @ + 1, !.successful = @ + 1]

\* mutant: a failure is counted but its error entry is not kept
RecordFailure_DropsError(bs, item, error) ==
    [bs EXCEPT !.total = @ + 1, !.failed = @ + 1]

RecordFailure(bs, item, error) ==
    [bs EXCEPT !.total = @ + 1, !.failed = @ + 1,
               !.errors = Append(@, [item |-> item, error |-> error])]

\* mutant: a single failure is tolerated
BatchExitCode_ToleratesOne(bs) == IF bs.failed > 1 THEN 1 ELSE 0

BatchExitCode(bs) == IF bs.failed > 0 THEN 1 ELSE 0

\* ---------------------------------------- logger.py: with_retry, retry_operation
MaxAttempts == 3

\* Exception classes an operation may raise; ConnectionError and
\* TimeoutError are subclasses of OSError, the others of Exception only.
ExceptionTypes ==
    {"TransientError", "ConnectionError", "TimeoutError", "OSError",
     "ValueError"}

\* isinstance(e, classes), as "except transient_exceptions" tests it
IsInstance(type, classes) ==
    \/ type \in classes
    \/ type \in {"ConnectionError", "TimeoutError"} /\ "OSError" \in classes

\* mutant: the except clause catches every Exception
Caught_Everything(type, classes) == TRUE

\* except transient_exceptions as e
Caught(type, classes) == IsInstance(type, classes)

\* the default of the parameter transient_exceptions
DefaultTransient == {"TransientError", "ConnectionError", "TimeoutError"}

\* What a call of the operation did: it returned a value or raised an
\* exception; `at` is the number of the call, which tells values and
\* exception objects of different calls apart.
Returned(n) == [raises |-> FALSE, type |-> "value", at |-> n]
Raised(type, n) == [raises |-> TRUE, type |-> type, at |-> n]
None == [raises |-> FALSE, type |-> "None", at |-> 0]

\* No retrying call is in progress.
NoRetry ==
    [pc |-> "idle", fn |-> "none", max_attempts |-> 0,
     transient_exceptions |-> {}, backoff_factor |-> 0, attempt |-> 0,
     delay |-> 0, slept |-> <<>>, calls |-> <<>>, last_exception |-> None,
     outcome |-> None]

\* ------------------------------------------------------------ LoadBalancer
NewGpuStat == [processed |-> 0, time |-> 0, failures |-> 0]

NewLoadBalancer(gpu_ids) ==
    [gpu_ids |-> gpu_ids,
     completed_count |-> 0,
     total_duration |-> 0,
     total_processing_time |-> 0,
     gpu_stats |-> [g \in Range(gpu_ids) |-> NewGpuStat],
     batch_summary |-> NewBatchLogSummary,
     results |-> <<>>,
     errors |-> <<>>]

\* mutant: a success is credited to every device of the balancer
HandleSuccess_CreditsAll(l, r) ==
    LET l1 == [l EXCEPT !.completed_count = @ + 1,
                        !.batch_summary = RecordSuccess(@, r.file),
                        !.total_duration = @ + r.duration,
                        !.total_processing_time = @ + r.processing_time]
    IN IF r.gpu_id \in DOMAIN l.gpu_stats
       THEN [lb |-> [l1 EXCEPT !.gpu_stats =
                        [g \in DOMAIN l.gpu_stats |->
                            [processed |-> l.gpu_stats[g].processed + 1,
                             time |-> l.gpu_stats[g].time + r.processing_time,
                             failures |-> l.gpu_stats[g].failures]]],
             raised |-> FALSE]
       ELSE [lb |-> l1, raised |-> TRUE]

\* Each handler returns the balancer it leaves and whether it raised
\* (gpu_stats[gpu_id] is a KeyError for an id the balancer was not built for;
\* the statements before the lookup have taken effect by then).
HandleSuccess(l, r) ==
    LET l1 == [l EXCEPT !.completed_count = @ + 1,
                        !.batch_summary = RecordSuccess(@, r.file),
                        !.total_duration = @ + r.duration,
                        !.total_processing_time = @ + r.processing_time]
    IN IF r.gpu_id \in DOMAIN l.gpu_stats
       THEN [lb |-> [l1 EXCEPT !.gpu_stats[r.gpu_id].processed = @ + 1,
                               !.gpu_stats[r.gpu_id].time = @ + r.processing_time],
             raised |-> FALSE]
       ELSE [lb |-> l1, raised |-> TRUE]

\* mutant: a failure is recorded but not counted as completed
HandleFailure_NotCounted(l, r) ==
    LET l1 == [l EXCEPT !.batch_summary = RecordFailure(@, r.file, r.error)]
    IN IF r.gpu_id \in DOMAIN l.gpu_stats
       THEN [lb |-> [l1 EXCEPT !.gpu_stats[r.gpu_id].failures = @ + 1,
                               !.errors = Append(@, r)],
             raised |-> FALSE]
       ELSE [lb |-> l1, raised |-> TRUE]

HandleFailure(l, r) ==
    LET l1 == [l EXCEPT !.completed_count = @ + 1,
                        !.batch_summary = RecordFailure(@, r.file, r.error)]
    IN IF r.gpu_id \in DOMAIN l.gpu_stats
       THEN [lb |-> [l1 EXCEPT !.gpu_stats[r.gpu_id].failures = @ + 1,
                               !.errors = Append(@, r)],
             raised |-> FALSE]
       ELSE [lb |-> l1, raised |-> TRUE]

\* mutant: a worker error counts as a completed file
HandleError_Counts(l, r) ==
    [lb |-> [l EXCEPT !.completed_count = @ + 1, !.errors = Append(@, r)],
     raised |-> FALSE]

HandleError(l, r) ==
    [lb |-> [l EXCEPT !.errors = Append(@, r)], raised |-> FALSE]

ProcessResult(l, r) ==
    LET h == IF r.type = "success" THEN HandleSuccess(l, r)
             ELSE IF r.type = "failure" THEN HandleFailure(l, r)
             ELSE HandleError(l, r)
    IN IF h.raised THEN h
       ELSE [lb |-> [h.lb EXCEPT !.results = Append(@, r)], raised |-> FALSE]

GetExitCode(l) == BatchExitCode(l.batch_summary)

\* mutant: reset keeps the batch summary of the previous batch
Reset_KeepsSummary(l) ==
    [l EXCEPT !.completed_count = 0,
              !.total_duration = 0,
              !.total_processing_time = 0,
              !.gpu_stats = [g \in Range(l.gpu_ids) |-> NewGpuStat],
              !.results = <<>>,
              !.errors = <<>>]

\* reset: every statistic is assigned anew; gpu_ids and logger are kept
Reset(l) ==
    [l EXCEPT !.completed_count = 0,
              !.total_duration = 0,
              !.total_processing_time = 0,
              !.gpu_stats = [g \in Range(l.gpu_ids) |-> NewGpuStat],
              !.results = <<>>,
              !.errors = <<>>,
              !.batch_summary = NewBatchLogSummary]

\* _process_result applied to every message of a stream, in order
RECURSIVE Replay(_, _)
Replay(l, stream) ==
    IF stream = <<>> THEN l
    ELSE Replay(ProcessResult(l, Head(stream)).lb, Tail(stream))

\* a / b on Python floats: the quotient as a fraction, or ZeroDivisionError
Quotient(a, b) ==
    IF b = 0 THEN [raised |-> TRUE, num |-> 0, den |-> 0]
    ELSE [raised |-> FALSE, num |-> a, den |-> b]

\* the float 0.0
Zero == [raised |-> FALSE, num |-> 0, den |-> 1]

GetOverallRtf(l) ==
    IF l.total_duration = 0 THEN Zero
    ELSE Quotient(l.total_processing_time, l.total_duration)

\* mutant: the guard of get_speedup tests the audio duration
GetSpeedup_GuardsDuration(l) ==
    IF l.total_duration = 0 THEN Zero
    ELSE Quotient(l.total_duration, l.total_processing_time)

GetSpeedup(l) ==
    IF l.total_processing_time = 0 THEN Zero
    ELSE Quotient(l.total_duration, l.total_processing_time)

GetSummaryStats(l) ==
    [completed |-> l.completed_count,
     successful |-> l.batch_summary.successful,
     failed |-> l.batch_summary.failed,
     total_duration |-> l.total_duration,
     total_processing_time |-> l.total_processing_time,
     overall_rtf |-> GetOverallRtf(l),
     speedup |-> GetSpeedup(l),
     gpu_stats |-> l.gpu_stats,
     error_count |-> Len(l.errors)]

\* print_summary: the entries printed under "=== Failed Files ===" (the
\* section is left out when there is none)
FailedFilesSection(l) == l.batch_summary.errors

\* ----------------------------------- launcher_multigpu.py: ProgressTracker
\* __init__: the per-GPU table has the keys range(num_gpus)
NewProgressTracker(total, num_gpus) ==
    [total_files |-> total,
     num_gpus |-> num_gpus,
     completed |-> 0,
     batch_summary |-> NewBatchLogSummary,
     total_duration |-> 0,
     total_processing_time |-> 0,
     gpu_stats |-> [g \in 0..(num_gpus - 1) |-> [processed |-> 0, time |-> 0]]]

\* _process_result: the tracker it leaves and whether it raised (KeyError
\* at gpu_stats[result["gpu_id"]], after the statements before it)
TrackerProcessResult(t, r) ==
    IF r.type = "success"
    THEN LET t1 == [t EXCEPT !.completed = @ + 1,
                             !.batch_summary = RecordSuccess(@, r.file),
                             !.total_duration = @ + r.duration,
                             !.total_processing_time = @ + r.processing_time]
         IN IF r.gpu_id \in DOMAIN t.gpu_stats
            THEN [tracker |->
                      [t1 EXCEPT !.gpu_stats[r.gpu_id].processed = @ + 1,
                                 !.gpu_stats[r.gpu_id].time =
                                     @ + r.processing_time],
                  raised |-> FALSE]
            ELSE [tracker |-> t1, raised |-> TRUE]
    ELSE IF r.type = "failure"
    THEN [tracker |->
              [t EXCEPT !.completed = @ + 1,
                        !.batch_summary = RecordFailure(@, r.file, r.error)],
          raised |-> FALSE]
    ELSE [tracker |-> t, raised |-> FALSE]

\* ------------------------------------------------------------------- inputs
Prefix(n) == [i \in 1..n |-> AllFiles[i]]
Reverse(s) == [i \in 1..Len(s) |-> s[Len(s) + 1 - i]]
\* discover_files returns the matches in directory order, which is no sorted
\* order: the batches run are in descending name order.
FileLists == {Reverse(Prefix(n)) : n \in 0..MaxFiles}

\* Every list of at most MaxFiles of the first MaxFiles names, in any order
\* and with repetitions: the arguments create_task_queue is applied to.
FileSeqs ==
    UNION {[1..n -> {AllFiles[i] : i \in 1..MaxFiles}] : n \in 0..MaxFiles}

\* Requested lists: none, consecutive ids from 0 or from 1, and a repeated id.
Ids(lo, k) == [i \in 1..k |-> lo + i - 1]
GpuLists ==
    {Ids(lo, k) : lo \in 0..1, k \in 0..MaxWorkers} \cup {<<0, 0>>}

Raises == [raises |-> TRUE]
Returns(d, p) == [raises |-> FALSE, duration |-> d, elapsed |-> p]

\* What the orchestrated runs draw transcribe results from: control flow never
\* reads the numbers, so one returning outcome stands for all of them there.
SysOutcomes == {Raises, Returns(MaxDuration, MaxElapsed)}

Alive(i) == wpc[i] \in {"started", "init", "loop", "work"}

TypeInv ==
    /\ pc \in {"validate", "discover", "create_queues", "spawn", "monitor",
               "wait", "summary", "returned", "raised", "interrupted"}
    /\ exitCode \in {-1, 0, 1, 130}
    /\ \A i \in Workers :
           wpc[i] \in {"unstarted", "started", "init", "loop", "work",
                       "init_failed", "finished", "died", "terminated"}

\* --------------------------------------------------------------------- Init
\* No ProcessSpawner method is being stepped through and no partition has
\* been computed: the state of these variables throughout a run of
\* LauncherOrchestrator.run, which makes its calls in one step each.
UnitIdle ==
    /\ sp_pc = "idle"
    /\ sp_i = 0
    /\ sp_ret = "none"
    /\ signals = [i \in Workers |-> <<>>]
    /\ file_size = FileSize
    /\ partition = <<>>
    /\ retry = NoRetry

InitState ==
    /\ UnitIdle
    /\ pc = "validate"
    /\ exitCode = -1
    /\ total_files = 0
    /\ taskBuffer = <<>>
    /\ taskPipe = <<>>
    /\ resultQueue = <<>>
    /\ started = <<>>
    /\ processes = <<>>
    /\ wpc = [i \in Workers |-> "unstarted"]
    /\ cuda_visible = [i \in Workers |-> -1]
    /\ task = [i \in Workers |-> Sentinel]
    /\ pulled = [i \in Workers |-> <<>>]
    /\ lb = NewLoadBalancer(<<>>)
    /\ terminate_all_called = FALSE

Init ==
    /\ gpus \in GpuLists
    /\ deviceCount \in 0..MaxDevices
    /\ input_dir \in PathKinds
    /\ files \in {DiscoverFiles(input_dir, entries) : entries \in FileLists}
    /\ InitState

\* ----------------------------------------------- LauncherOrchestrator.run
\* mutant: a failed validation is reported and run goes on
RunValidate_GoesOn ==
    /\ pc = "validate"
    /\ pc' = "discover"
    /\ UNCHANGED <<unitVars, envVars, exitCode, total_files, started, processes,
                   terminate_all_called, queueVars, workerVars, lb>>

\* Step 1: validate_gpus; on failure return 1
RunValidate ==
    /\ pc = "validate"
    /\ IF ValidateGpus(gpus, deviceCount)
       THEN /\ pc' = "discover"
            /\ exitCode' = exitCode
       ELSE /\ pc' = "returned"
            /\ exitCode' = 1
    /\ UNCHANGED <<unitVars, envVars, total_files, started, processes,
                   terminate_all_called, queueVars, workerVars, lb>>

\* mutant: an empty batch is not returned early
RunDiscover_GoesOn ==
    /\ pc = "discover"
    /\ pc' = "create_queues"
    /\ UNCHANGED <<unitVars, envVars, exitCode, total_files, started, processes,
                   terminate_all_called, queueVars, workerVars, lb>>

\* Step 2: discover_files; no file: return 0
RunDiscover ==
    /\ pc = "discover"
    /\ IF files = <<>>
       THEN /\ pc' = "returned"
            /\ exitCode' = 0
       ELSE /\ pc' = "create_queues"
            /\ exitCode' = exitCode
    /\ UNCHANGED <<unitVars, envVars, total_files, started, processes,
                   terminate_all_called, queueVars, workerVars, lb>>

\* Steps 3 and 4: create_task_queue, create_result_queue, LoadBalancer(gpus)
RunCreateQueues ==
    /\ pc = "create_queues"
    /\ taskBuffer' = CreateTaskQueue(files, Len(gpus))
    /\ taskPipe' = <<>>
    /\ resultQueue' = CreateResultQueue
    /\ lb' = NewLoadBalancer(gpus)
    /\ total_files' = Len(files)
    /\ pc' = "spawn"
    /\ UNCHANGED <<unitVars, envVars, exitCode, started, processes,
                   terminate_all_called, workerVars>>

\* Step 5: spawn_workers, one iteration of "for gpu_id in gpu_ids"
RunSpawnOne ==
    /\ pc = "spawn"
    /\ Len(started) < Len(gpus)
    /\ LET i == Len(started) + 1
       IN /\ wpc' = [wpc EXCEPT ![i] = "started"]
          /\ started' = Append(started, i)
    /\ UNCHANGED <<unitVars, envVars, pc, exitCode, total_files, processes,
                   terminate_all_called, queueVars, cuda_visible, task,
                   pulled, lb>>

\* spawn_workers: self.processes = processes; return
RunSpawnDone ==
    /\ pc = "spawn"
    /\ Len(started) = Len(gpus)
    /\ processes' = started
    /\ pc' = "monitor"
    /\ UNCHANGED <<unitVars, envVars, exitCode, total_files, started,
                   terminate_all_called, queueVars, workerVars, lb>>

\* mutant: the time credited for a result depends on the backlog of the queue
MonitorGet_CountsBacklog ==
    /\ pc = "monitor"
    /\ lb.completed_count < total_files
    /\ resultQueue # <<>>
    /\ LET h == ProcessResult(lb, Head(resultQueue))
       IN /\ lb' = [h.lb EXCEPT !.total_processing_time =
                                    @ + Len(resultQueue) - 1]
          /\ pc' = IF h.raised THEN "raised" ELSE pc
    /\ resultQueue' = Tail(resultQueue)
    /\ UNCHANGED <<unitVars, envVars, exitCode, total_files, started, processes,
                   terminate_all_called, taskBuffer, taskPipe, workerVars>>

\* Step 6: monitor_progress, one iteration that gets a result
MonitorGet ==
    /\ pc = "monitor"
    /\ lb.completed_count < total_files
    /\ resultQueue # <<>>
    /\ LET h == ProcessResult(lb, Head(resultQueue))
       IN /\ lb' = h.lb
          /\ pc' = IF h.raised THEN "raised" ELSE pc
    /\ resultQueue' = Tail(resultQueue)
    /\ UNCHANGED <<unitVars, envVars, exitCode, total_files, started, processes,
                   terminate_all_called, taskBuffer, taskPipe, workerVars>>

\* monitor_progress: get(timeout) raises Empty; continue
MonitorEmpty ==
    /\ pc = "monitor"
    /\ lb.completed_count < total_files
    /\ resultQueue = <<>>
    /\ UNCHANGED vars

\* monitor_progress: the while condition fails; return
MonitorReturn ==
    /\ pc = "monitor"
    /\ ~(lb.completed_count < total_files)
    /\ pc' = "wait"
    /\ UNCHANGED <<unitVars, envVars, exitCode, total_files, started, processes,
                   terminate_all_called, queueVars, workerVars, lb>>

\* Step 7: wait_for_completion() joins every process without timeout
RunWait ==
    /\ pc = "wait"
    /\ \A i \in Range(processes) : ~Alive(i)
    /\ pc' = "summary"
    /\ UNCHANGED <<unitVars, envVars, exitCode, total_files, started, processes,
                   terminate_all_called, queueVars, workerVars, lb>>

\* mutant: the summary step calls terminate_all before returning
RunSummary_TerminatesAll ==
    /\ pc = "summary"
    /\ wpc' = wpc
    /\ terminate_all_called' = TRUE
    /\ exitCode' = GetExitCode(lb)
    /\ pc' = "returned"
    /\ UNCHANGED <<unitVars, envVars, total_files, started, processes,
                   queueVars, cuda_visible, task, pulled, lb>>

\* Step 8: print_summary; return get_exit_code()
RunSummary ==
    /\ pc = "summary"
    /\ exitCode' = GetExitCode(lb)
    /\ pc' = "returned"
    /\ UNCHANGED <<unitVars, envVars, total_files, started, processes,
                   terminate_all_called, queueVars, workerVars, lb>>

\* ------------------------------------------------------------ task queue
\* the queue's feeder thread moves one buffered item into the pipe
Feeder ==
    /\ taskBuffer # <<>>
    /\ taskPipe' = Append(taskPipe, Head(taskBuffer))
    /\ taskBuffer' = Tail(taskBuffer)
    /\ UNCHANGED <<unitVars, envVars, runVars, resultQueue, workerVars, lb>>

\* mutant: the get reads the head without removing it
QueueAfterGet_Peek(q) == q

\* what a successful get leaves in the pipe
QueueAfterGet(q) == Tail(q)

\* --------------------------------------------------------- worker_process
\* mutant: the worker goes on to the transcriber without setting the variable
WorkerBind_Skipped(i) ==
    /\ wpc[i] = "started"
    /\ wpc' = [wpc EXCEPT ![i] = "init"]
    /\ UNCHANGED <<unitVars, envVars, runVars, queueVars, cuda_visible, task,
                   pulled, lb>>

\* os.environ["CUDA_VISIBLE_DEVICES"] = str(gpu_id)
WorkerBind(i) ==
    /\ wpc[i] = "started"
    /\ cuda_visible' = [cuda_visible EXCEPT ![i] = gpus[i]]
    /\ wpc' = [wpc EXCEPT ![i] = "init"]
    /\ UNCHANGED <<unitVars, envVars, runVars, queueVars, task, pulled, lb>>

\* mutant: the failure is reported twice
InitFailurePuts_Twice(i) ==
    <<ErrorMsg(gpus[i], "init_error"), ErrorMsg(gpus[i], "init_error")>>

\* what a failed initialization puts on the result queue
InitFailurePuts(i) == <<ErrorMsg(gpus[i], "init_error")>>

\* FasterWhisperTranscriber(...): returns, or raises -> error message, return
WorkerInit(i) ==
    /\ wpc[i] = "init"
    /\ \E ok \in BOOLEAN :
       IF ok
       THEN /\ wpc' = [wpc EXCEPT ![i] = "loop"]
            /\ resultQueue' = resultQueue
       ELSE /\ wpc' = [wpc EXCEPT ![i] = "init_failed"]
            /\ resultQueue' = resultQueue \o InitFailurePuts(i)
    /\ UNCHANGED <<unitVars, envVars, runVars, taskBuffer, taskPipe, cuda_visible, task,
                   pulled, lb>>

\* mutant: a sentinel does not end the loop
AfterGet_KeepsPulling(t) == IF t = Sentinel THEN "loop" ELSE "work"

\* where the loop goes after a get returned t
AfterGet(t) == IF t = Sentinel THEN "finished" ELSE "work"

\* task = task_queue.get(timeout=1) returns a message
WorkerGet(i) ==
    /\ wpc[i] = "loop"
    /\ taskPipe # <<>>
    /\ LET t == Head(taskPipe)
       IN /\ pulled' = [pulled EXCEPT ![i] = Append(@, t)]
          /\ task' = [task EXCEPT ![i] = t]
          /\ wpc' = [wpc EXCEPT ![i] = AfterGet(t)]
    /\ taskPipe' = QueueAfterGet(taskPipe)
    /\ UNCHANGED <<unitVars, envVars, runVars, taskBuffer, resultQueue, cuda_visible, lb>>

\* task_queue.get(timeout=1) raises Empty; continue
WorkerGetEmpty(i) ==
    /\ wpc[i] = "loop"
    /\ taskPipe = <<>>
    /\ UNCHANGED vars

\* mutant: an exception of the inner try is swallowed without a message
ProcessPuts_SilentFailure(i, t, o) ==
    IF o.raises
    THEN <<>>
    ELSE <<SuccessMsg(gpus[i], t.file, o.duration, o.elapsed)>>

\* mutant: a failure after the success was put reports the file a second time
ProcessPuts_Twice(i, t, o) ==
    IF o.raises
    THEN <<SuccessMsg(gpus[i], t.file, MaxDuration, MaxElapsed),
           FailureMsg(gpus[i], t.file, "transcribe_error")>>
    ELSE <<SuccessMsg(gpus[i], t.file, o.duration, o.elapsed)>>

\* what processing work item t puts on the result queue
ProcessPuts(i, t, o) ==
    IF o.raises
    THEN <<FailureMsg(gpus[i], t.file, "transcribe_error")>>
    ELSE <<SuccessMsg(gpus[i], t.file, o.duration, o.elapsed)>>

\* mutant: a put jumps the queue
ResultPut_Front(q, msgs) == msgs \o q

\* result_queue.put(...): the queue is first-in first-out
ResultPut(q, msgs) == q \o msgs

\* mutant: a failed file ends the worker
AfterProcess_FailureEndsWorker(o) == IF o.raises THEN "finished" ELSE "loop"

\* where the worker goes after the inner try block: both the try and its
\* except clause fall through to the next iteration of "while True"
AfterProcess(o) == "loop"

\* the inner try block: transcribe, save, put success; except: put failure
WorkerProcess(i) ==
    /\ wpc[i] = "work"
    /\ \E o \in SysOutcomes :
           /\ resultQueue' = ResultPut(resultQueue, ProcessPuts(i, task[i], o))
           /\ wpc' = [wpc EXCEPT ![i] = AfterProcess(o)]
    /\ UNCHANGED <<unitVars, envVars, runVars, taskBuffer, taskPipe, cuda_visible, task,
                   pulled, lb>>

\* the worker process dies (killed by the OS, segfault in the runtime)
WorkerDies(i) ==
    /\ Alive(i)
    /\ wpc' = [wpc EXCEPT ![i] = "died"]
    /\ UNCHANGED <<unitVars, envVars, runVars, queueVars, cuda_visible, task, pulled, lb>>

\* --------------------------------------------------------- specifications
Next ==
    \/ RunValidate
    \/ RunDiscover
    \/ RunCreateQueues
    \/ RunSpawnOne
    \/ RunSpawnDone
    \/ MonitorGet
    \/ MonitorEmpty
    \/ MonitorReturn
    \/ RunWait
    \/ RunSummary
    \/ Feeder
    \/ \E i \in Workers : WorkerBind(i)
    \/ \E i \in Workers : WorkerInit(i)
    \/ \E i \in Workers : WorkerGet(i)
    \/ \E i \in Workers : WorkerGetEmpty(i)
    \/ \E i \in Workers : WorkerProcess(i)

Spec == Init /\ [][Next]_vars

\* The operating system schedules every live process and thread: the
\* orchestrator, the queue's feeder thread and each worker keep taking steps.
Fairness ==
    /\ WF_vars(RunValidate \/ RunDiscover \/ RunCreateQueues \/ RunSpawnOne
               \/ RunSpawnDone \/ MonitorGet \/ MonitorReturn \/ RunWait
               \/ RunSummary)
    /\ WF_vars(Feeder)
    /\ \A i \in 1..MaxWorkers :
           WF_vars(i \in Workers /\ (WorkerBind(i) \/ WorkerInit(i)
                                     \/ WorkerGet(i) \/ WorkerProcess(i)))

FairSpec == Init /\ [][Next]_vars /\ Fairness

\* The same system in an environment where a worker process may die at any
\* point of its life.
NextCrash ==
    \/ Next
    \/ \E i \in Workers : WorkerDies(i)

CrashSpec == Init /\ [][NextCrash]_vars

FairCrashSpec == Init /\ [][NextCrash]_vars /\ Fairness

\* ------------------------------------------------------------ interrupts
\* The statements of run's try block (lines 73-134) an interrupt can arrive in.
RunSteps == {"validate", "discover", "create_queues", "spawn", "monitor",
             "wait", "summary"}

\* Ctrl-C: KeyboardInterrupt is raised in the orchestrator's main thread,
\* inside the try block of run; none of the calls made there catches it
RunKeyboardInterrupt ==
    /\ pc \in RunSteps
    /\ pc' = "interrupted"
    /\ UNCHANGED <<unitVars, envVars, exitCode, total_files, started, processes,
                   terminate_all_called, queueVars, workerVars, lb>>

\* terminate_all: terminate (then kill) every process of self.processes that
\* is alive
TerminateAll(w, ps) ==
    [i \in DOMAIN w |->
        IF i \in Range(ps) /\ w[i] \in {"started", "init", "loop", "work"}
        THEN "terminated" ELSE w[i]]

\* mutant: the handler returns 130 without terminate_all
RunExceptKeyboardInterrupt_NoTerminate ==
    /\ pc = "interrupted"
    /\ exitCode' = 130
    /\ pc' = "returned"
    /\ UNCHANGED <<unitVars, envVars, total_files, started, processes,
                   terminate_all_called, queueVars, workerVars, lb>>

\* except KeyboardInterrupt: terminate_all(); return 130
RunExceptKeyboardInterrupt ==
    /\ pc = "interrupted"
    /\ wpc' = TerminateAll(wpc, processes)
    /\ terminate_all_called' = TRUE
    /\ exitCode' = 130
    /\ pc' = "returned"
    /\ UNCHANGED <<unitVars, envVars, total_files, started, processes, queueVars,
                   cuda_visible, task, pulled, lb>>

\* The same system with a user who may press Ctrl-C at any time.
NextInterrupt ==
    \/ Next
    \/ RunKeyboardInterrupt
    \/ RunExceptKeyboardInterrupt

InterruptSpec == Init /\ [][NextInterrupt]_vars

FairInterruptSpec ==
    Init /\ [][NextInterrupt]_vars /\ Fairness
         /\ WF_vars(RunExceptKeyboardInterrupt)

\* ------------------------------------------------------------ exceptions
\* A call made in the try block of run raises an exception that is an
\* Exception (an OSError of glob or Process.start, a KeyError of the
\* balancer, ...); nothing between the call and run's handler catches it
RunRaises ==
    /\ pc \in RunSteps
    /\ pc' = "raised"
    /\ UNCHANGED <<unitVars, envVars, exitCode, total_files, started, processes,
                   terminate_all_called, queueVars, workerVars, lb>>

\* mutant: the handler returns 1 without terminate_all
RunExceptException_NoTerminate ==
    /\ pc = "raised"
    /\ exitCode' = 1
    /\ pc' = "returned"
    /\ UNCHANGED <<unitVars, envVars, total_files, started, processes,
                   terminate_all_called, queueVars, workerVars, lb>>

\* except Exception: log, terminate_all(); return 1
RunExceptException ==
    /\ pc = "raised"
    /\ wpc' = TerminateAll(wpc, processes)
    /\ terminate_all_called' = TRUE
    /\ exitCode' = 1
    /\ pc' = "returned"
    /\ UNCHANGED <<unitVars, envVars, total_files, started, processes,
                   queueVars, cuda_visible, task, pulled, lb>>

\* The same system where Ctrl-C may be pressed and any call of run may raise.
NextFault ==
    \/ NextInterrupt
    \/ RunRaises
    \/ RunExceptException

FaultSpec == Init /\ [][NextFault]_vars

FairFaultSpec ==
    Init /\ [][NextFault]_vars /\ Fairness
         /\ WF_vars(RunExceptKeyboardInterrupt)
         /\ WF_vars(RunExceptException)

\* ------------------------------------------- the aggregator on its own
\* LoadBalancer.monitor_progress fed a synthetic result stream: a balancer
\* built for a device list drains, for an expected total, whatever messages
\* arrive, among them messages of devices it was not built for.
FeedGpus == {0, 1, MaxDevices}
FeedMessages ==
    {SuccessMsg(g, AllFiles[1], d, p) :
        g \in FeedGpus, d \in {0, MaxDuration}, p \in {0, MaxElapsed}}
    \cup {FailureMsg(g, AllFiles[1], "transcribe_error") : g \in FeedGpus}
    \cup {ErrorMsg(g, "init_error") : g \in FeedGpus}

Consumed == IF pc = "raised" THEN Len(lb.results) + 1 ELSE Len(lb.results)

AggFeed ==
    /\ pc \in {"monitor", "wait"}
    /\ Len(resultQueue) + Consumed < MaxFeed
    /\ \E m \in FeedMessages : resultQueue' = Append(resultQueue, m)
    /\ UNCHANGED <<unitVars, envVars, runVars, taskBuffer, taskPipe, workerVars, lb>>

AggInit ==
    /\ gpus \in {Ids(0, k) : k \in 1..MaxWorkers}
    /\ deviceCount = MaxDevices
    /\ files = <<>>
    /\ input_dir = "directory"
    /\ pc = "monitor"
    /\ exitCode = -1
    /\ total_files \in 0..MaxFiles
    /\ taskBuffer = <<>>
    /\ taskPipe = <<>>
    /\ resultQueue = <<>>
    /\ started = <<>>
    /\ processes = <<>>
    /\ wpc = [i \in Workers |-> "unstarted"]
    /\ cuda_visible = [i \in Workers |-> -1]
    /\ task = [i \in Workers |-> Sentinel]
    /\ pulled = [i \in Workers |-> <<>>]
    /\ lb = NewLoadBalancer(gpus)
    /\ terminate_all_called = FALSE
    /\ UnitIdle

AggNext ==
    \/ AggFeed
    \/ MonitorGet
    \/ MonitorEmpty
    \/ MonitorReturn

AggSpec == AggInit /\ [][AggNext]_vars

\* ------------------------------------------------- the balancer's tallies
\* A fresh LoadBalancer for two devices drains a stream of records that is
\* complete before the drain starts: every sequence of at most MaxRecords
\* success, failure and worker-error messages of its devices, in every order.
RecordMessages ==
    {SuccessMsg(g, AllFiles[1], MaxDuration, MaxElapsed) : g \in 0..1}
    \cup {FailureMsg(g, AllFiles[1], "transcribe_error") : g \in 0..1}
    \cup {ErrorMsg(g, "init_error") : g \in 0..1}

RecordStreams == UNION {[1..n -> RecordMessages] : n \in 0..MaxRecords}

TallyInit ==
    /\ gpus = <<0, 1>>
    /\ deviceCount = 2
    /\ files = <<>>
    /\ input_dir = "directory"
    /\ pc = "monitor"
    /\ exitCode = -1
    /\ total_files = MaxRecords
    /\ taskBuffer = <<>>
    /\ taskPipe = <<>>
    /\ resultQueue \in RecordStreams
    /\ started = <<>>
    /\ processes = <<>>
    /\ wpc = [i \in Workers |-> "unstarted"]
    /\ cuda_visible = [i \in Workers |-> -1]
    /\ task = [i \in Workers |-> Sentinel]
    /\ pulled = [i \in Workers |-> <<>>]
    /\ lb = NewLoadBalancer(gpus)
    /\ terminate_all_called = FALSE
    /\ UnitIdle

TallyNext ==
    \/ MonitorGet
    \/ MonitorEmpty
    \/ MonitorReturn

TallySpec == TallyInit /\ [][TallyNext]_vars

\* ------------------------------------------------- reuse of a balancer
\* Multi-run reuse: a balancer for two devices drains a result stream, its
\* owner calls reset() (between two calls of monitor_progress, or from the
\* progress callback while one is running) and the balancer goes on
\* draining.  sp_pc tells whether reset() has been called and sp_i how
\* many results the balancer had processed when it was.
ResetStreams == UNION {[1..n -> RecordMessages] : n \in 0..MaxFeed}

ResetInit ==
    /\ gpus = <<0, 1>>
    /\ deviceCount = 2
    /\ files = <<>>
    /\ input_dir = "directory"
    /\ pc = "monitor"
    /\ exitCode = -1
    /\ total_files \in 0..MaxFeed
    /\ taskBuffer = <<>>
    /\ taskPipe = <<>>
    /\ resultQueue \in ResetStreams
    /\ started = <<>>
    /\ processes = <<>>
    /\ wpc = [i \in Workers |-> "unstarted"]
    /\ cuda_visible = [i \in Workers |-> -1]
    /\ task = [i \in Workers |-> Sentinel]
    /\ pulled = [i \in Workers |-> <<>>]
    /\ lb = NewLoadBalancer(gpus)
    /\ terminate_all_called = FALSE
    /\ sp_pc = "fresh"
    /\ sp_i = 0
    /\ sp_ret = "none"
    /\ signals = [i \in Workers |-> <<>>]
    /\ file_size = FileSize
    /\ partition = <<>>
    /\ retry = NoRetry

\* load_balancer.reset()
ResetCall ==
    /\ pc \in {"monitor", "wait"}
    /\ sp_pc = "fresh"
    /\ lb' = Reset(lb)
    /\ sp_pc' = "reset"
    /\ sp_i' = Len(lb.results)
    /\ UNCHANGED <<envVars, runVars, queueVars, workerVars, sp_ret, signals,
                   file_size, retry, partition>>

\* the next call of monitor_progress(result_queue, total_files) on the
\* balancer that was reset
MonitorAgain ==
    /\ pc = "wait"
    /\ sp_pc = "reset"
    /\ \E n \in 0..MaxFeed : total_files' = n
    /\ pc' = "monitor"
    /\ sp_pc' = "reused"
    /\ UNCHANGED <<envVars, exitCode, started, processes,
                   terminate_all_called, queueVars, workerVars, lb, sp_i,
                   sp_ret, signals, file_size, retry, partition>>

ResetNext ==
    \/ MonitorGet
    \/ MonitorEmpty
    \/ MonitorReturn
    \/ ResetCall
    \/ MonitorAgain

ResetSpec == ResetInit /\ [][ResetNext]_vars

\* --------------------------------------------------------------- retries
\* One call of the wrapper with_retry builds, or of retry_operation: the two
\* bodies are the same statements.  The operation is free to return or to
\* raise any of the exception classes at each call.
RetryInit ==
    /\ gpus = <<>>
    /\ deviceCount = 0
    /\ files = <<>>
    /\ input_dir = "directory"
    /\ pc = "validate"
    /\ exitCode = -1
    /\ total_files = 0
    /\ taskBuffer = <<>>
    /\ taskPipe = <<>>
    /\ resultQueue = <<>>
    /\ started = <<>>
    /\ processes = <<>>
    /\ wpc = [i \in Workers |-> "unstarted"]
    /\ cuda_visible = [i \in Workers |-> -1]
    /\ task = [i \in Workers |-> Sentinel]
    /\ pulled = [i \in Workers |-> <<>>]
    /\ lb = NewLoadBalancer(<<>>)
    /\ terminate_all_called = FALSE
    /\ sp_pc = "retry"
    /\ sp_i = 0
    /\ sp_ret = "none"
    /\ signals = [i \in Workers |-> <<>>]
    /\ file_size = FileSize
    /\ partition = <<>>
    /\ \E fn \in {"with_retry", "retry_operation"},
          n \in 0..MaxAttempts,
          classes \in {DefaultTransient, {"OSError"}},
          d \in 0..1, b \in 1..2 :
           retry = [NoRetry EXCEPT !.pc = "enter", !.fn = fn,
                                   !.max_attempts = n,
                                   !.transient_exceptions = classes,
                                   !.delay = d, !.backoff_factor = b]

\* delay = initial_delay; last_exception = None; the for statement starts.
\* With an empty range the body never runs and the statements after the
\* loop do: last_exception is None, so the function returns None.
RetryEnter ==
    /\ retry.pc = "enter"
    /\ IF retry.max_attempts >= 1
       THEN retry' = [retry EXCEPT !.pc = "call", !.attempt = 1]
       ELSE retry' = [retry EXCEPT !.pc = "returned", !.outcome = None]
    /\ UNCHANGED <<envVars, runVars, queueVars, workerVars, lb, sp_pc, sp_i,
                   sp_ret, signals, file_size, partition>>

\* try: return operation(); except transient_exceptions as e: ...
RetryCall ==
    /\ retry.pc = "call"
    /\ \E o \in {Returned(retry.attempt)}
                 \cup {Raised(t, retry.attempt) : t \in ExceptionTypes} :
        LET r == [retry EXCEPT !.calls = Append(@, o)]
        IN IF ~o.raises
           THEN retry' = [r EXCEPT !.pc = "returned", !.outcome = o]
           ELSE IF ~Caught(o.type, retry.transient_exceptions)
           THEN retry' = [r EXCEPT !.pc = "raised", !.outcome = o]
           ELSE IF retry.attempt = retry.max_attempts
           THEN retry' = [r EXCEPT !.pc = "raised", !.outcome = o,
                                   !.last_exception = o]
           ELSE retry' = [r EXCEPT !.pc = "sleep", !.last_exception = o]
    /\ UNCHANGED <<envVars, runVars, queueVars, workerVars, lb, sp_pc, sp_i,
                   sp_ret, signals, file_size, partition>>

\* time.sleep(delay); delay *= backoff_factor; next attempt of the range, or,
\* the range exhausted: if last_exception: raise last_exception
RetrySleep ==
    /\ retry.pc = "sleep"
    /\ LET r == [retry EXCEPT !.slept = Append(@, retry.delay),
                              !.delay = @ * retry.backoff_factor]
       IN IF retry.attempt + 1 <= retry.max_attempts
          THEN retry' = [r EXCEPT !.pc = "call", !.attempt = @ + 1]
          ELSE retry' = [r EXCEPT !.pc = "raised",
                                  !.outcome = retry.last_exception]
    /\ UNCHANGED <<envVars, runVars, queueVars, workerVars, lb, sp_pc, sp_i,
                   sp_ret, signals, file_size, partition>>

RetryNext ==
    \/ RetryEnter
    \/ RetryCall
    \/ RetrySleep

RetrySpec == RetryInit /\ [][RetryNext]_vars

\* ------------------------------------------ ProcessSpawner, step by step
\* terminate_all and wait_for_completion run one statement at a time on a
\* list of started processes, each of which may be alive or not and may exit
\* at any moment.  The worker's own steps are left out: only whether its
\* process is alive matters to these two methods.
ProcessStates == {"loop", "work", "finished", "init_failed"}

SpawnerInit ==
    /\ gpus \in {Ids(0, k) : k \in 1..MaxWorkers}
    /\ deviceCount = MaxDevices
    /\ files = <<>>
    /\ input_dir = "directory"
    /\ sp_pc \in {"terminate", "join", "join_timeout"}
    /\ pc = IF sp_pc = "terminate" THEN "interrupted" ELSE "wait"
    /\ exitCode = -1
    /\ total_files = 0
    /\ taskBuffer = <<>>
    /\ taskPipe = <<>>
    /\ resultQueue = <<>>
    /\ started = [i \in Workers |-> i]
    /\ processes = started
    /\ wpc \in [Workers -> ProcessStates]
    /\ cuda_visible = [i \in Workers |-> gpus[i]]
    /\ task = [i \in Workers |-> Sentinel]
    /\ pulled = [i \in Workers |-> <<>>]
    /\ lb = NewLoadBalancer(gpus)
    /\ terminate_all_called = FALSE
    /\ sp_i = 1
    /\ sp_ret = "none"
    /\ signals = [i \in Workers |-> <<>>]
    /\ file_size = FileSize
    /\ partition = <<>>
    /\ retry = NoRetry

\* mutant: the signal is sent without asking is_alive()
SignalSent_Always(alive, sig, sent) == Append(sent, sig)

\* if p.is_alive(): p.terminate() / p.kill()
SignalSent(alive, sig, sent) == IF alive THEN Append(sent, sig) ELSE sent

\* terminate_all, first loop: one iteration of "for p in self.processes"
TerminateSignal ==
    /\ sp_pc = "terminate"
    /\ sp_i <= Len(processes)
    /\ LET p == processes[sp_i]
       IN signals' = [signals EXCEPT ![p] = SignalSent(Alive(p), "terminate", @)]
    /\ sp_i' = sp_i + 1
    /\ UNCHANGED <<envVars, runVars, queueVars, workerVars, lb, sp_pc, sp_ret,
                   file_size, retry, partition>>

\* terminate_all: the first loop is over; time.sleep(0.5)
TerminateSleep ==
    /\ sp_pc = "terminate"
    /\ sp_i > Len(processes)
    /\ sp_pc' = "kill"
    /\ sp_i' = 1
    /\ UNCHANGED <<envVars, runVars, queueVars, workerVars, lb, sp_ret,
                   signals, file_size, retry, partition>>

\* terminate_all, second loop: one iteration; SIGKILL ends the process
TerminateKill ==
    /\ sp_pc = "kill"
    /\ sp_i <= Len(processes)
    /\ LET p == processes[sp_i]
       IN /\ signals' = [signals EXCEPT ![p] = SignalSent(Alive(p), "kill", @)]
          /\ wpc' = [wpc EXCEPT ![p] = IF Alive(p) THEN "terminated" ELSE @]
    /\ sp_i' = sp_i + 1
    /\ UNCHANGED <<envVars, runVars, queueVars, cuda_visible, task, pulled, lb,
                   sp_pc, sp_ret, file_size, retry, partition>>

\* terminate_all returns
TerminateReturn ==
    /\ sp_pc = "kill"
    /\ sp_i > Len(processes)
    /\ sp_pc' = "terminate_done"
    /\ terminate_all_called' = TRUE
    /\ UNCHANGED <<envVars, pc, exitCode, total_files, started, processes,
                   queueVars, workerVars, lb, sp_i, sp_ret, signals, file_size, retry,
                   partition>>

\* wait_for_completion: p.join(timeout) returns with p not alive; next p
WaitJoined ==
    /\ sp_pc \in {"join", "join_timeout"}
    /\ sp_i <= Len(processes)
    /\ ~Alive(processes[sp_i])
    /\ sp_i' = sp_i + 1
    /\ UNCHANGED <<envVars, runVars, queueVars, workerVars, lb, sp_pc, sp_ret,
                   signals, file_size, retry, partition>>

\* mutant: a timeout is reported as completion
WaitTimeout_ReturnsTrue ==
    /\ sp_pc = "join_timeout"
    /\ sp_i <= Len(processes)
    /\ Alive(processes[sp_i])
    /\ sp_ret' = "true"
    /\ sp_pc' = "done"
    /\ UNCHANGED <<envVars, runVars, queueVars, workerVars, lb, sp_i, signals,
                   file_size, retry, partition>>

\* wait_for_completion(timeout): the join timed out, p.is_alive(): return False
WaitTimeout ==
    /\ sp_pc = "join_timeout"
    /\ sp_i <= Len(processes)
    /\ Alive(processes[sp_i])
    /\ sp_ret' = "false"
    /\ sp_pc' = "done"
    /\ UNCHANGED <<envVars, runVars, queueVars, workerVars, lb, sp_i, signals,
                   file_size, retry, partition>>

\* wait_for_completion: the loop is over; return True
WaitReturnTrue ==
    /\ sp_pc \in {"join", "join_timeout"}
    /\ sp_i > Len(processes)
    /\ sp_ret' = "true"
    /\ sp_pc' = "done"
    /\ UNCHANGED <<envVars, runVars, queueVars, workerVars, lb, sp_i, signals,
                   file_size, retry, partition>>

\* a process that is alive exits: on the SIGTERM it was sent, or on its own
ProcessExits(i) ==
    /\ Alive(i)
    /\ wpc' = [wpc EXCEPT ![i] = IF signals[i] # <<>> THEN "terminated"
                                  ELSE "finished"]
    /\ UNCHANGED <<unitVars, envVars, runVars, queueVars, cuda_visible, task,
                   pulled, lb>>

SpawnerNext ==
    \/ TerminateSignal
    \/ TerminateSleep
    \/ TerminateKill
    \/ TerminateReturn
    \/ WaitJoined
    \/ WaitTimeout
    \/ WaitReturnTrue
    \/ \E i \in Workers : ProcessExits(i)

SpawnerSpec == SpawnerInit /\ [][SpawnerNext]_vars

\* ------------------------------------------------- partition functions
\* ResourceAllocator.distribute_workload and the older
\* WorkloadBalancer.balance_by_size, each called once on a file list, the
\* sizes of its files and a device count of at least 1.
PartitionInit ==
    /\ gpus \in {Ids(0, k) : k \in 1..MaxDevices}
    /\ deviceCount = MaxDevices
    /\ files \in {Prefix(n) : n \in 0..MaxPartFiles}
    /\ input_dir = "directory"
    /\ file_size \in [Range(files) -> 0..MaxSize]
    /\ partition = <<>>
    /\ retry = NoRetry
    /\ sp_pc = "partition"
    /\ sp_i = 0
    /\ sp_ret = "none"
    /\ signals = [i \in Workers |-> <<>>]
    /\ pc = "create_queues"
    /\ exitCode = -1
    /\ total_files = 0
    /\ taskBuffer = <<>>
    /\ taskPipe = <<>>
    /\ resultQueue = <<>>
    /\ started = <<>>
    /\ processes = <<>>
    /\ wpc = [i \in Workers |-> "unstarted"]
    /\ cuda_visible = [i \in Workers |-> -1]
    /\ task = [i \in Workers |-> Sentinel]
    /\ pulled = [i \in Workers |-> <<>>]
    /\ lb = NewLoadBalancer(<<>>)
    /\ terminate_all_called = FALSE

\* the file lists of a list of GPUWorkload objects
FilesOf(workloads) == [k \in 1..Len(workloads) |-> workloads[k].files]

CallDistributeWorkload ==
    /\ sp_pc = "partition"
    /\ "distribute_workload" \notin DOMAIN partition
    /\ partition' = partition @@
           ("distribute_workload" :>
                DistributeWorkload(files, file_size, Len(gpus)))
    /\ UNCHANGED <<envVars, runVars, queueVars, workerVars, lb, sp_pc, sp_i,
                   sp_ret, signals, file_size, retry>>

CallBalanceBySize ==
    /\ sp_pc = "partition"
    /\ "balance_by_size" \notin DOMAIN partition
    /\ partition' = partition @@
           ("balance_by_size" :>
                FilesOf(BalanceBySize(files, file_size, Len(gpus))))
    /\ UNCHANGED <<envVars, runVars, queueVars, workerVars, lb, sp_pc, sp_i,
                   sp_ret, signals, file_size, retry>>

PartitionNext ==
    \/ CallDistributeWorkload
    \/ CallBalanceBySize

PartitionSpec == PartitionInit /\ [][PartitionNext]_vars

\* ------------------------------------------------------------------ claims
\* Every place where a worker pulled a work item for file f.
ClaimsOf(f) ==
    {c \in {<<i, j>> : i \in Workers, j \in 1..(MaxFiles + 1)} :
        /\ c[2] <= Len(pulled[c[1]])
        /\ pulled[c[1]][c[2]].kind = "item"
        /\ pulled[c[1]][c[2]].file = f}

ItemsOf(q) == {j \in 1..Len(q) : q[j].kind = "item"}
SentinelsOf(q) == {j \in 1..Len(q) : q[j] = Sentinel}

\* C1: whatever the number of workers and the interleaving of their pulls,
\* a work item put on the task channel is claimed at most once: not by two
\* workers, and not twice by one.
C1_ClaimedAtMostOnce ==
    \A f \in Range(files) : Cardinality(ClaimsOf(f)) <= 1

\* C1 witness: two workers have each claimed a work item, and every file of
\* the batch has been claimed.
C1_Witness ==
    /\ Len(files) = MaxFiles
    /\ \A f \in Range(files) : ClaimsOf(f) # {}
    /\ \E i, j \in Workers : i # j /\ ItemsOf(pulled[i]) # {} /\ ItemsOf(pulled[j]) # {}

\* C2: from a fresh aggregator, when monitor_progress returns for an expected
\* total n, successes + failures is exactly n, whatever stream of success,
\* failure and worker-error messages arrived.
C2_DrainReturnsAtTotal ==
    pc = "wait" =>
        lb.batch_summary.successful + lb.batch_summary.failed = total_files

\* C2 witness: the drain has returned for the largest total after taking a
\* success, a failure and a worker error.
C2_Witness ==
    /\ pc = "wait"
    /\ total_files = MaxFiles
    /\ lb.batch_summary.successful >= 1
    /\ lb.batch_summary.failed >= 1
    /\ \E j \in 1..Len(lb.results) : lb.results[j].type = "error"

\* The task channel, oldest message first.
TaskChannel == taskPipe \o taskBuffer

\* Queue q holds one work item per file of fs, in order, with 1-based index
\* and total, then exactly k sentinels, and no sentinel before an item.
ChannelShape(q, fs, k) ==
    /\ Len(q) = Len(fs) + k
    /\ \A j \in 1..Len(fs) :
           /\ q[j].kind = "item"
           /\ q[j].file = fs[j]
           /\ q[j].index = j
           /\ q[j].total = Len(fs)
    /\ Cardinality(SentinelsOf(q)) = k
    /\ \A j \in SentinelsOf(q), m \in ItemsOf(q) : m < j

\* C3: the task channel create_task_queue builds holds one work item per
\* file, in file order, with 1-based index and total = number of files,
\* followed by exactly one sentinel per worker; no sentinel precedes an item.
\* Stated of the channel run has just built, and (on entry of run) of
\* create_task_queue on every file list and worker count, the empty list and
\* zero workers included.
C3_TaskChannelShape ==
    /\ (pc = "spawn" /\ started = <<>>) =>
           ChannelShape(TaskChannel, files, Len(gpus))
    /\ pc = "validate" =>
           \A fs \in FileSeqs, k \in 0..MaxWorkers :
               ChannelShape(CreateTaskQueue(fs, k), fs, k)

\* C3 witness: the channel has just been built for the largest batch and the
\* longest worker list, and the feeder has flushed part of it.
C3_Witness ==
    /\ pc = "spawn"
    /\ started = <<>>
    /\ Len(files) = MaxFiles
    /\ files[1] # AllFiles[1]
    /\ Len(gpus) = MaxWorkers
    /\ taskPipe # <<>>
    /\ taskBuffer # <<>>

\* Every message put on the result queue so far, oldest first: what the
\* balancer has taken (LoadBalancer.results) and what still waits.
Emitted == lb.results \o resultQueue

ResultsFor(f) ==
    {j \in 1..Len(Emitted) :
        Emitted[j].type \in {"success", "failure"} /\ Emitted[j].file = f}

ErrorsOf(g) ==
    {j \in 1..Len(Emitted) : Emitted[j].type = "error" /\ Emitted[j].gpu_id = g}

Initialized(i) == wpc[i] \in {"loop", "work", "finished"}
SomeInitFailed == \E i \in Workers : wpc[i] = "init_failed"
SomeInitialized == \E i \in Workers : Initialized(i)
DrainReturned == pc \in {"wait", "summary", "returned"} /\ total_files > 0

\* A sentinel is the last message a worker pulled, if it pulled one.
SentinelLast(i) ==
    \A j \in SentinelsOf(pulled[i]) : j = Len(pulled[i])

\* C4: under fair scheduling every worker that initialized eventually pulls
\* a sentinel and terminates, however the work items spread over the workers;
\* a worker pulls at most one sentinel and nothing after it.
C4_WorkersReachSentinel ==
    /\ \A i \in 1..MaxWorkers :
           (i \in Workers /\ Initialized(i))
               ~> (i \in Workers /\ wpc[i] = "finished"
                   /\ pulled[i][Len(pulled[i])] = Sentinel)
    /\ [](\A i \in Workers :
             /\ Cardinality(SentinelsOf(pulled[i])) <= 1
             /\ SentinelLast(i))

\* C4 witness: uneven load; one worker took every work item, another took
\* none, and all workers of the longest list have terminated on a sentinel.
C4_Witness ==
    /\ Len(gpus) = MaxWorkers
    /\ Len(files) = MaxFiles
    /\ \A i \in Workers : wpc[i] = "finished" /\ pulled[i][Len(pulled[i])] = Sentinel
    /\ \E i, j \in Workers :
           Cardinality(ItemsOf(pulled[i])) = MaxFiles /\ pulled[j] = <<Sentinel>>

AllInitFailed == Workers # {} /\ \A i \in Workers : wpc[i] = "init_failed"
ReturnedNonZero == pc = "returned" /\ exitCode # 0

\* C6: when every worker failed initialization, so that the drain can never
\* reach the expected total, run stops draining and returns a non-zero status.
C6_StallIsFatal == AllInitFailed ~> ReturnedNonZero

\* Worker i died holding a work item it had claimed and not yet reported.
DiedHolding(i) ==
    /\ wpc[i] = "died"
    /\ pulled[i] # <<>>
    /\ task[i].kind = "item"
    /\ ResultsFor(task[i].file) = {}

\* C7: when a worker dies after claiming a work item and before reporting
\* it, the orchestrator eventually calls terminate_all and run returns a
\* non-zero status.
C7_DeathIsFatal ==
    (\E i \in Workers : DiedHolding(i))
        ~> (terminate_all_called /\ ReturnedNonZero)

\* C8: a worker whose initialization fails has put exactly one worker-error
\* message on the result channel and has pulled nothing from the task channel.
C8_InitFailureReportsOnce ==
    /\ \A i \in Workers : wpc[i] = "init_failed" => pulled[i] = <<>>
    /\ \A g \in Range(gpus) :
           Cardinality(ErrorsOf(g))
               = Cardinality({i \in Workers : wpc[i] = "init_failed" /\ gpus[i] = g})

\* C8 witness: a worker failed initialization, its message has reached the
\* balancer, and another worker has pulled from the task channel.
C8_Witness ==
    /\ \E i \in Workers : wpc[i] = "init_failed"
    /\ \E j \in 1..Len(lb.results) : lb.results[j].type = "error"
    /\ \E i \in Workers : pulled[i] # <<>>

\* Worker i has not finished the message at position j of what it pulled: it
\* is processing it, or it died (possibly while processing it).
Unfinished(i, j) == j = Len(pulled[i]) /\ wpc[i] \in {"work", "died"}

\* C9: for each work item a worker claimed there is never more than one
\* result message, and once the worker is past the item (it went on or
\* ended on a sentinel) there is exactly one, a success or a failure put by
\* that worker.
C9_OneResultPerClaim ==
    \A i \in Workers : \A j \in ItemsOf(pulled[i]) :
        LET f == pulled[i][j].file
        IN /\ Cardinality(ResultsFor(f)) <= 1
           /\ \A m \in ResultsFor(f) : Emitted[m].gpu_id = gpus[i]
           /\ ~Unfinished(i, j) => Cardinality(ResultsFor(f)) = 1

\* C9 witness: one worker has reported a failure and gone on to report a
\* success, and has ended on a sentinel.
C9_Witness ==
    \E i \in Workers :
        /\ wpc[i] = "finished"
        /\ Cardinality(ItemsOf(pulled[i])) = MaxFiles
        /\ \E m \in ResultsFor(pulled[i][1].file) : Emitted[m].type = "failure"
        /\ \E m \in ResultsFor(pulled[i][2].file) : Emitted[m].type = "success"

\* C10: when run returns, every message the workers put on the result
\* channel has been taken by the aggregator, exactly once.
C10_AllResultsConsumed ==
    pc = "returned" =>
        /\ resultQueue = <<>>
        /\ \A f \in Range(files) : Cardinality(ResultsFor(f)) <= 1

\* The worker that distribute_workload's split gives file f to.
AssignedWorker(f) ==
    CHOOSE k \in Workers :
        f \in Range(DistributeWorkload(files, FileSize, Len(gpus))[k])

\* Where the work item of the file at position idx waits in the task channel.
WaitingAt(idx) ==
    {j \in 1..Len(TaskChannel) :
        TaskChannel[j] = WorkItem(files[idx], idx, Len(files))}

C12_ResultsInPullOrder ==
    \A i \in Workers : \A j, k \in ItemsOf(pulled[i]) :
        j < k =>
            /\ pulled[i][j].index < pulled[i][k].index
            /\ \A mk \in ResultsFor(pulled[i][k].file) :
                   \E mj \in ResultsFor(pulled[i][j].file) : mj < mk

\* C12 witness: one worker pulled two work items and both results are out,
\* while another worker is running too.
C12_Witness ==
    /\ Len(gpus) = MaxWorkers
    /\ \E i \in Workers : \E j, k \in ItemsOf(pulled[i]) :
           /\ j < k
           /\ ResultsFor(pulled[i][j].file) # {}
           /\ ResultsFor(pulled[i][k].file) # {}
    /\ \E i \in Workers : wpc[i] = "loop" /\ pulled[i] = <<>>

FailureEmitted == \E m \in 1..Len(Emitted) : Emitted[m].type = "failure"
AllFilesReported == \A f \in Range(files) : Cardinality(ResultsFor(f)) = 1

\* C13: a failure does not abort the batch: once a failure has been put,
\* under fair scheduling every file of the batch still gets its own single
\* result; a worker leaves its loop only on a sentinel, never on a failure.
C13_FailureDoesNotAbort ==
    /\ FailureEmitted ~> AllFilesReported
    /\ [](\A i \in Workers :
             wpc[i] = "finished" => pulled[i][Len(pulled[i])] = Sentinel)

\* C13 witness: the first file of the largest batch failed, and the worker
\* that reported the failure went on to claim the next file, which succeeded.
C13_Witness ==
    /\ Len(files) = MaxFiles
    /\ AllFilesReported
    /\ \E m \in ResultsFor(files[1]) : Emitted[m].type = "failure"
    /\ \E m \in ResultsFor(files[MaxFiles]) : Emitted[m].type = "success"
    /\ \E i \in Workers :
           /\ Len(pulled[i]) >= 2
           /\ pulled[i][1].kind = "item" /\ pulled[i][1].file = files[1]
           /\ pulled[i][2].kind = "item"

\* run got past validation and discovery: the path through steps 3 to 8
NormalPath == ValidateGpus(gpus, deviceCount) /\ files # <<>>

\* C14: in every aggregator state the exit code is 0 exactly when no failure
\* has been recorded (0 for a fresh aggregator, 1 from the first failure on),
\* and a run that returns on the normal path returns that value.
C14_ExitCodeLaw ==
    /\ GetExitCode(lb) = 0 <=> lb.batch_summary.failed = 0
    /\ GetExitCode(lb) \in {0, 1}
    /\ GetExitCode(NewLoadBalancer(gpus)) = 0
    /\ (pc = "returned" /\ NormalPath) => exitCode = GetExitCode(lb)

\* C14 witness: a run of the largest batch returned 1 on the normal path
\* after one success and one failure.
C14_Witness ==
    /\ pc = "returned"
    /\ NormalPath
    /\ exitCode = 1
    /\ lb.batch_summary.successful = 1
    /\ lb.batch_summary.failed = 1

\* The counters of a balancer: completed, the summary's tallies, the
\* cumulative times and the per-device statistics.
Counters(l) ==
    <<l.completed_count, l.batch_summary.total, l.batch_summary.successful,
      l.batch_summary.failed, l.total_duration, l.total_processing_time,
      l.gpu_stats>>

\* C15: processing a worker-error message, of any device and in any state of
\* the balancer, leaves the completed count, the successes and failures, the
\* cumulative duration and processing time and every per-device counter
\* unchanged.
C15_WorkerErrorFrame ==
    \A m \in FeedMessages :
        m.type = "error" =>
            LET h == ProcessResult(lb, m)
            IN /\ ~h.raised
               /\ Counters(h.lb) = Counters(lb)
               /\ h.lb.results = Append(lb.results, m)

\* C15 witness: the balancer took a worker error after it had counted a
\* file, and is still draining.
C15_Witness ==
    /\ pc = "monitor"
    /\ lb.completed_count >= 1
    /\ lb.completed_count < total_files
    /\ Len(lb.results) >= 2
    /\ lb.results[Len(lb.results)].type = "error"

\* C16: for a device d of the balancer, a success of d adds 1 to d's
\* processed count, the message's processing time to d's busy time and to
\* the cumulative processing time, and its duration to the cumulative
\* duration; a failure of d adds 1 to d's failure count and one entry to the
\* error list; the counters of every other device stay as they were.
C16_ResultFrame ==
    \A m \in FeedMessages :
        (m.type \in {"success", "failure"} /\ m.gpu_id \in DOMAIN lb.gpu_stats) =>
            LET d == m.gpu_id
                h == ProcessResult(lb, m)
                old == lb.gpu_stats[d]
                new == h.lb.gpu_stats[d]
            IN /\ ~h.raised
               /\ \A g \in DOMAIN lb.gpu_stats \ {d} :
                      h.lb.gpu_stats[g] = lb.gpu_stats[g]
               /\ DOMAIN h.lb.gpu_stats = DOMAIN lb.gpu_stats
               /\ IF m.type = "success"
                  THEN /\ new.processed = old.processed + 1
                       /\ new.time = old.time + m.processing_time
                       /\ new.failures = old.failures
                       /\ h.lb.total_duration = lb.total_duration + m.duration
                       /\ h.lb.total_processing_time
                              = lb.total_processing_time + m.processing_time
                       /\ h.lb.errors = lb.errors
                  ELSE /\ new.failures = old.failures + 1
                       /\ new.processed = old.processed
                       /\ new.time = old.time
                       /\ h.lb.errors = Append(lb.errors, m)
                       /\ h.lb.total_duration = lb.total_duration
                       /\ h.lb.total_processing_time = lb.total_processing_time

\* C16 witness: a balancer of two devices has taken a success of device 1
\* and a failure of device 0.
C16_Witness ==
    /\ DOMAIN lb.gpu_stats = {0, 1}
    /\ lb.gpu_stats[1] = [processed |-> 1, time |-> MaxElapsed, failures |-> 0]
    /\ lb.gpu_stats[0] = [processed |-> 0, time |-> 0, failures |-> 1]
    /\ lb.total_duration = MaxDuration
    /\ Len(lb.errors) = 1

CountOf(type) ==
    Cardinality({j \in 1..Len(lb.results) : lb.results[j].type = type})

\* C17: after s success and f failure records, whatever their order (and
\* whatever worker errors came in between), the summary of a fresh
\* aggregator has successful = s, failed = f, total = s + f and f error
\* entries; 3 successes and 2 failures give exit code 1.
C17_TalliesMatchRecords ==
    LET s == CountOf("success")
        f == CountOf("failure")
    IN /\ lb.batch_summary.successful = s
       /\ lb.batch_summary.failed = f
       /\ lb.batch_summary.total = s + f
       /\ Len(lb.batch_summary.errors) = f
       /\ Len(lb.errors) = f + CountOf("error")
       /\ (s = 3 /\ f = 2) => GetExitCode(lb) = 1

\* C17 witness: 3 successes and 2 failures, a failure first and a failure
\* last, have been recorded: tallies 3 and 2, two error entries, exit code 1.
C17_Witness ==
    /\ Len(lb.results) = 5
    /\ lb.results[1].type = "failure"
    /\ lb.results[5].type = "failure"
    /\ lb.batch_summary.successful = 3
    /\ lb.batch_summary.failed = 2
    /\ Len(lb.batch_summary.errors) = 2
    /\ GetExitCode(lb) = 1

\* No process was spawned, no channel was built, no balancer was created.
NothingBuilt ==
    /\ started = <<>>
    /\ processes = <<>>
    /\ \A i \in Workers : wpc[i] = "unstarted"
    /\ TaskChannel = <<>>
    /\ resultQueue = <<>>
    /\ total_files = 0
    /\ lb = NewLoadBalancer(<<>>)

\* C18: when validation of the requested devices fails, run returns 1; no
\* worker process has been spawned, no channel has been built and the files
\* of the input directory are not acted on.
C18_ValidationFailureReturns1 ==
    ~ValidateGpus(gpus, deviceCount) =>
        /\ pc = "validate" \/ (pc = "returned" /\ exitCode = 1)
        /\ NothingBuilt

\* C18 witness: run returned 1 for a request naming a device that does not
\* exist, with files waiting in the input directory.
C18_Witness ==
    /\ pc = "returned"
    /\ exitCode = 1
    /\ deviceCount > 0
    /\ \E i \in Workers : gpus[i] \notin GetAvailableGpus(deviceCount)
    /\ Len(files) = MaxFiles

\* C19: when validation passes and discovery finds no file, run returns 0
\* and no worker process is spawned.
C19_EmptyBatchReturns0 ==
    (ValidateGpus(gpus, deviceCount) /\ files = <<>>) =>
        /\ pc \in {"validate", "discover"} \/ (pc = "returned" /\ exitCode = 0)
        /\ NothingBuilt

\* C19 witness: run returned 0 for the longest valid device list and an
\* empty input directory.
C19_Witness ==
    /\ pc = "returned"
    /\ exitCode = 0
    /\ files = <<>>
    /\ Len(gpus) = MaxWorkers
    /\ ValidateGpus(gpus, deviceCount)

\* C20: an interrupt can arrive in every step of run (validation, discovery,
\* channel building, spawn, drain, wait, summary), and whenever one arrived
\* run calls terminate_all and returns 130; after that no process of
\* ProcessSpawner.processes is alive.
C20_InterruptReturns130 ==
    /\ (pc = "interrupted")
           ~> (pc = "returned" /\ exitCode = 130 /\ terminate_all_called)
    /\ [](pc \in RunSteps => ENABLED RunKeyboardInterrupt)
    /\ [](exitCode = 130 =>
             /\ terminate_all_called
             /\ \A i \in Range(processes) : ~Alive(i))

\* C20 witness: run returned 130 after an interrupt during the drain, and
\* terminate_all stopped a worker that was processing a file.
C20_Witness ==
    /\ pc = "returned"
    /\ exitCode = 130
    /\ terminate_all_called
    /\ \E i \in Workers : wpc[i] = "terminated" /\ task[i].kind = "item"
    /\ lb.completed_count < total_files

\* C21: an exception can be raised in every step of run, and whenever one
\* was raised run calls terminate_all and returns 1 (it does not propagate);
\* after that no process of ProcessSpawner.processes is alive.
C21_ExceptionReturns1 ==
    /\ (pc = "raised")
           ~> (pc = "returned" /\ exitCode = 1 /\ terminate_all_called)
    /\ [](pc \in RunSteps => ENABLED RunRaises)
    /\ []((pc = "returned" /\ terminate_all_called) =>
             /\ exitCode \in {1, 130}
             /\ \A i \in Range(processes) : ~Alive(i))

\* C21 witness: run returned 1 after an exception in the drain, when a file
\* had been counted, and terminate_all stopped a worker that had not pulled
\* anything yet.
C21_Witness ==
    /\ pc = "returned"
    /\ exitCode = 1
    /\ terminate_all_called
    /\ lb.completed_count >= 1
    /\ \E i \in Workers : wpc[i] = "terminated" /\ pulled[i] = <<>>

\* C22: as long as no interrupt and no exception has occurred, terminate_all
\* has not been called and no worker has been terminated or killed, and the
\* return of the summary step leaves it so: a run that completes on the
\* normal path never terminates a worker.
C22_NoTerminateOnNormalPath ==
    /\ [](pc \in RunSteps =>
             /\ ~terminate_all_called
             /\ \A i \in Workers : wpc[i] # "terminated")
    /\ [][(pc = "summary" /\ pc' = "returned") =>
             /\ ~terminate_all_called'
             /\ \A i \in Workers : wpc'[i] # "terminated"]_vars

\* C22 witness: a run of the longest device list completed on the normal
\* path with every worker ended on its sentinel and terminate_all not called.
C22_Witness ==
    /\ pc = "returned"
    /\ NormalPath
    /\ exitCode = 0
    /\ ~terminate_all_called
    /\ Len(gpus) = MaxWorkers
    /\ \A i \in Workers : wpc[i] = "finished"

\* C23: terminate_all sends terminate to the handles that are alive, sleeps,
\* and only then kills those still alive: a handle is sent terminate at most
\* once and kill only after terminate, no kill is sent before the grace
\* period, every handle alive after the first loop has been sent terminate,
\* a handle that is not alive is sent nothing, and none is alive at the end.
C23_TerminateThenKill ==
    /\ [](\A i \in Workers :
             signals[i] \in {<<>>, <<"terminate">>, <<"terminate", "kill">>})
    /\ [](\A i \in Workers :
             "kill" \in Range(signals[i]) => sp_pc \in {"kill", "terminate_done"})
    /\ [](sp_pc \in {"kill", "terminate_done"} =>
             \A i \in Range(processes) :
                 Alive(i) => "terminate" \in Range(signals[i]))
    /\ [][\A i \in Workers : signals'[i] # signals[i] => Alive(i)]_vars
    /\ [](terminate_all_called => \A i \in Range(processes) : ~Alive(i))

\* C23 witness: terminate_all has returned; one handle outlived the grace
\* period and was killed, another had ended before the call and was sent
\* nothing.
C23_Witness ==
    /\ sp_pc = "terminate_done"
    /\ terminate_all_called
    /\ \E i \in Workers : signals[i] = <<"terminate", "kill">>
    /\ \E i \in Workers : signals[i] = <<>> /\ wpc[i] = "init_failed"

\* C24: wait_for_completion returns True only when no process of the list is
\* alive; the call sends no signal and changes neither the list nor any
\* process, whatever it returns.
C24_WaitHasNoSideEffects ==
    /\ [](sp_ret = "true" => \A i \in Range(processes) : ~Alive(i))
    /\ [](sp_ret # "none" =>
             /\ processes = [i \in Workers |-> i]
             /\ \A i \in Workers : signals[i] = <<>> /\ wpc[i] # "terminated")
    /\ [][(sp_pc \in {"join", "join_timeout"}
             /\ (sp_i' # sp_i \/ sp_ret' # sp_ret)) =>
            UNCHANGED <<processes, started, wpc, signals>>]_vars

\* C24 witness: wait_for_completion with a timeout joined the first process
\* and returned False on the second, which is still alive.
C24_Witness ==
    /\ sp_ret = "false"
    /\ sp_i = 2
    /\ Alive(processes[2])
    /\ ~Alive(processes[1])

\* C25: in every worker CUDA_VISIBLE_DEVICES is unset until the worker binds,
\* is the worker's device id from then on (so when the transcriber is
\* initialized and through every task until the worker ends), and once set
\* never changes.
C25_BindingFixed ==
    /\ [](\A i \in Workers :
             IF wpc[i] \in {"unstarted", "started"}
             THEN cuda_visible[i] = -1
             ELSE cuda_visible[i] = gpus[i])
    /\ [][\A i \in Workers :
             cuda_visible[i] # -1 => cuda_visible'[i] = cuda_visible[i]]_vars

\* C25 witness: the worker of device 1 processed every file of the largest
\* batch and ended, bound to device 1.
C25_Witness ==
    \E i \in Workers :
        /\ gpus[i] = 1
        /\ cuda_visible[i] = 1
        /\ wpc[i] = "finished"
        /\ Cardinality(ItemsOf(pulled[i])) = MaxFiles

\* C26: for every requested list validate accepts, one worker is started per
\* device and no two workers are bound to the same device, also when the list
\* repeats an id.
C26_OneWorkerPerDevice ==
    /\ \A i, j \in Workers :
           (i # j /\ cuda_visible[i] # -1 /\ cuda_visible[j] # -1) =>
               cuda_visible[i] # cuda_visible[j]
    /\ pc = "monitor" => Len(processes) = Cardinality(Range(gpus))

\* Requested lists validate_gpus is applied to: every list of at most
\* MaxWorkers ids, available or not, repeated or not.
RequestLists == UNION {[1..k -> 0..MaxDevices] : k \in 0..MaxWorkers}

\* C27: validate_gpus accepts exactly when the request is not empty, at least
\* one device is enumerated and every requested id is enumerated; it gives
\* an empty message when it accepts and a non-empty one in the three other
\* cases.  Stated of the request of the run and (on entry of run) of every
\* request list and device count.
C27_ValidateAcceptsExactly ==
    LET Law(r, n) ==
            /\ ValidateGpus(r, n) <=>
                   (r # <<>> /\ n >= 1 /\ \A i \in 1..Len(r) : r[i] \in 0..(n - 1))
            /\ ValidateGpus(r, n) <=> ValidateGpusReason(r, n).text = ""
    IN /\ Law(gpus, deviceCount)
       /\ pc \notin {"validate", "returned"} => ValidateGpus(gpus, deviceCount)
       /\ pc = "validate" =>
              \A r \in RequestLists, n \in 0..MaxDevices : Law(r, n)

\* C27 witness: validation accepted the longest list on the largest machine
\* and run went on to discovery.
C27_Witness ==
    /\ pc = "discover"
    /\ Len(gpus) = MaxWorkers
    /\ deviceCount = MaxDevices
    /\ ValidateGpusReason(gpus, deviceCount).text = ""

\* C28: when requested ids are not available, the message of validate_gpus
\* names every requested id that is not available and gives the available
\* ids.
C28_ReasonNamesEveryUnavailableId ==
    (gpus # <<>> /\ deviceCount > 0) =>
        LET reason == ValidateGpusReason(gpus, deviceCount)
        IN \A i \in Workers :
               gpus[i] \notin GetAvailableGpus(deviceCount) =>
                   /\ gpus[i] \in Range(reason.ids)
                   /\ Range(reason.available) = GetAvailableGpus(deviceCount)

\* Where file f sits in the sub-lists w.
PlacesIn(w, f) ==
    {<<k, m>> \in (1..Len(w)) \X (1..MaxPartFiles) :
        m <= Len(w[k]) /\ w[k][m] = f}

RECURSIVE SumLen(_, _)
SumLen(w, k) == IF k = 0 THEN 0 ELSE Len(w[k]) + SumLen(w, k - 1)

\* C29: for every file list and device count >= 1, each partition function
\* returns one sub-list per device, the lengths of the sub-lists add up to
\* the number of files, and every file is in exactly one sub-list, once.
C29_PartitionComplete ==
    \A name \in DOMAIN partition :
        LET w == partition[name]
        IN /\ Len(w) = Len(gpus)
           /\ SumLen(w, Len(w)) = Len(files)
           /\ \A f \in Range(files) : Cardinality(PlacesIn(w, f)) = 1

\* C29 witness: both functions have split the longest file list, of files of
\* different sizes, over the largest number of devices.
C29_Witness ==
    /\ DOMAIN partition = {"distribute_workload", "balance_by_size"}
    /\ Len(files) = MaxPartFiles
    /\ Len(gpus) = MaxDevices
    /\ file_size[files[1]] < file_size[files[2]]

ScenarioFiles == <<"s10.wav", "s1a.wav", "s1b.wav", "s1c.wav", "s1d.wav">>
ScenarioSize == [f \in Range(ScenarioFiles) |-> IF f = "s10.wav" THEN 10 ELSE 1]

\* C30: the partition is the greedy size-balance: largest file first, each
\* to the device with the smallest byte total so far, ties to the lowest
\* index; sizes [10,1,1,1,1] on 2 devices give [10] and [1,1,1,1].
C30_PartitionIsGreedy ==
    /\ "distribute_workload" \in DOMAIN partition =>
           partition["distribute_workload"]
               = FilesOf(BalanceBySize(files, file_size, Len(gpus)))
    /\ DistributeWorkload(ScenarioFiles, ScenarioSize, 2)
           = << <<"s10.wav">>, <<"s1a.wav", "s1b.wav", "s1c.wav", "s1d.wav">> >>

\* The byte total of a sub-list of files.
RECURSIVE ByteTotal(_, _)
ByteTotal(fs, size) ==
    IF fs = <<>> THEN 0 ELSE size[Head(fs)] + ByteTotal(Tail(fs), size)

\* The largest minus the smallest per-device byte total of the sub-lists w.
Spread(w, size) ==
    LET totals == {ByteTotal(w[k], size) : k \in 1..Len(w)}
        hi == CHOOSE t \in totals : \A u \in totals : u <= t
        lo == CHOOSE t \in totals : \A u \in totals : t <= u
    IN hi - lo

\* The size of the largest single file (0 for no file).
LargestFile(fs, size) ==
    IF fs = <<>> THEN 0
    ELSE LET sizes == {size[f] : f \in Range(fs)}
         IN CHOOSE t \in sizes : \A u \in sizes : u <= t

\* C31: for every list of file sizes and every device count >= 1, the
\* largest per-device byte total minus the smallest per-device byte total of
\* a partition is at most the size of the largest single file.
C31_BalanceBound ==
    \A name \in DOMAIN partition :
        Spread(partition[name], file_size) <= LargestFile(files, file_size)

\* C31 witness: both functions have split the longest file list over the
\* largest number of devices, the files differ in size, and the split of
\* distribute_workload is as uneven as the bound allows.
C31_Witness ==
    /\ DOMAIN partition = {"distribute_workload", "balance_by_size"}
    /\ Len(files) = MaxPartFiles
    /\ Len(gpus) = MaxDevices
    /\ LargestFile(files, file_size) > 0
    /\ \E f \in Range(files) : file_size[f] < LargestFile(files, file_size)
    /\ Spread(partition["distribute_workload"], file_size)
           = LargestFile(files, file_size)

\* C32: discover on a path that does not exist or is not a directory gives
\* an outcome that differs from the empty result of a directory without
\* matches, and run on such a path does not return the empty-batch status 0.
C32_MissingDirIsAnError ==
    (pc = "returned" /\ ~ValidateInputDir(input_dir).is_valid) =>
        /\ exitCode # 0
        /\ ValidateGpus(gpus, deviceCount) =>
               files # DiscoverFiles("directory", <<>>)

\* C33: every failure the aggregator has consumed, a file's Failure as well
\* as a device's WorkerError, is an entry of the list the summary prints
\* under "failed files".
C33_EveryFailureListed ==
    \A k \in 1..Len(lb.results) :
        LET r == lb.results[k]
            listed == Range(FailedFilesSection(lb))
        IN /\ r.type = "failure" =>
                  [item |-> r.file, error |-> r.error] \in listed
           /\ r.type = "error" =>
                  \E e \in listed : e.error = r.error

\* The value of a quotient that was computed is a / b.
IsQuotient(q, a, b) == ~q.raised /\ b # 0 /\ q.num * b = a * q.den

\* C34: in every state of the aggregator overall_rtf is 0 when no audio
\* duration has accumulated and speedup is 0 when no processing time has
\* accumulated; otherwise they are processing/audio and audio/processing;
\* neither computation divides by zero.
C34_RatiosGuarded ==
    LET stats == GetSummaryStats(lb)
    IN /\ ~stats.overall_rtf.raised
       /\ ~stats.speedup.raised
       /\ IF lb.total_duration = 0
          THEN stats.overall_rtf = Zero
          ELSE IsQuotient(stats.overall_rtf, lb.total_processing_time,
                          lb.total_duration)
       /\ IF lb.total_processing_time = 0
          THEN stats.speedup = Zero
          ELSE IsQuotient(stats.speedup, lb.total_duration,
                          lb.total_processing_time)

\* C34 witness: the aggregator has consumed a success of zero-length audio
\* that took processing time, and a failure: the duration is still 0 while
\* the processing time is not.
C34_Witness ==
    /\ lb.total_duration = 0
    /\ lb.total_processing_time > 0
    /\ lb.batch_summary.failed > 0
    /\ GetSummaryStats(lb).speedup = Quotient(0, lb.total_processing_time)

\* C35: after reset(), whatever results were processed before, the
\* aggregator equals a freshly constructed one for the same device list
\* (completed, successes, failures, cumulative times, per-device counters,
\* result list and error lists all zero or empty), and the stream it is fed
\* afterwards gives the stats that stream gives on a fresh aggregator.
C35_ResetIsFresh ==
    /\ [][ResetCall => lb' = NewLoadBalancer(lb.gpu_ids)]_vars
    /\ [](sp_pc \in {"reset", "reused"} =>
             GetSummaryStats(lb)
                 = GetSummaryStats(Replay(NewLoadBalancer(gpus), lb.results)))

\* C35 witness: reset() was called on a balancer that had processed
\* results, the balancer was handed to monitor_progress again and has since
\* processed a success and a failure.
C35_Witness ==
    /\ sp_pc = "reused"
    /\ sp_i >= 1
    /\ lb.batch_summary.successful > 0
    /\ lb.batch_summary.failed > 0

RetryOver == retry.pc \in {"returned", "raised"}

\* Call k of the operation raised an exception the retry catches.
TransientAt(k) ==
    /\ retry.calls[k].raises
    /\ IsInstance(retry.calls[k].type, retry.transient_exceptions)

\* C37: with_retry and retry_operation call the operation at most
\* max_attempts times; they stop at the first call that returns and return
\* its value; if every call raises a transient exception they make exactly
\* max_attempts calls and re-raise the last exception; a non-transient
\* exception propagates after its call, with no further attempt.
C37_RetryAtMostMaxAttempts ==
    LET n == Len(retry.calls)
    IN /\ n <= retry.max_attempts
       /\ \A k \in 1..(n - 1) : TransientAt(k)
       /\ (n > 0 /\ ~retry.calls[n].raises) =>
              /\ retry.pc = "returned"
              /\ retry.outcome = retry.calls[n]
       /\ (n > 0 /\ retry.calls[n].raises /\ ~TransientAt(n)) =>
              /\ retry.pc = "raised"
              /\ retry.outcome = retry.calls[n]
       /\ (RetryOver /\ n > 0 /\ \A k \in 1..n : TransientAt(k)) =>
              /\ n = retry.max_attempts
              /\ retry.pc = "raised"
              /\ retry.outcome = retry.calls[n]

\* C37 witness: every one of max_attempts = MaxAttempts calls raised a
\* transient exception, of more than one class, and the last was re-raised.
C37_Witness ==
    /\ retry.pc = "raised"
    /\ retry.max_attempts = MaxAttempts
    /\ Len(retry.calls) = MaxAttempts
    /\ \A k \in 1..Len(retry.calls) : TransientAt(k)
    /\ retry.calls[1].type # retry.calls[2].type
    /\ retry.outcome = retry.calls[MaxAttempts]

\* The sum of one counter over the devices of the per-device table.
RECURSIVE SumOverDevices(_, _, _)
SumOverDevices(stats, field, devices) ==
    IF devices = {} THEN 0
    ELSE LET g == CHOOSE d \in devices : TRUE
         IN stats[g][field] + SumOverDevices(stats, field, devices \ {g})

\* C38: in every state of the LoadBalancer completed_count is successes plus
\* failures, the processed counts of the devices add up to the successes and
\* their failure counts to the failures; during a drain completed_count
\* never decreases and never exceeds the expected total.
C38_CountersConsistent ==
    /\ [](/\ lb.completed_count
                = lb.batch_summary.successful + lb.batch_summary.failed
          /\ SumOverDevices(lb.gpu_stats, "processed", DOMAIN lb.gpu_stats)
                = lb.batch_summary.successful
          /\ SumOverDevices(lb.gpu_stats, "failures", DOMAIN lb.gpu_stats)
                = lb.batch_summary.failed
          /\ lb.completed_count <= total_files)
    /\ [][lb'.completed_count >= lb.completed_count]_vars

\* C38 witness: a drain on two distinct devices is over with a success on
\* one device and a failure on the other.
C38_Witness ==
    /\ pc = "wait"
    /\ lb.completed_count = MaxFiles
    /\ \E g, h \in DOMAIN lb.gpu_stats :
           /\ g # h
           /\ lb.gpu_stats[g].processed > 0
           /\ lb.gpu_stats[h].failures > 0

\* C39: whenever run returns through its interrupt or exception handler,
\* no worker process started during the run is left alive: each one that
\* was alive has been terminated, also those started by a spawn_workers
\* that was interrupted or failed partway through its loop.
C39_EveryStartedWorkerTerminated ==
    (pc = "returned" /\ terminate_all_called) =>
        \A i \in Range(started) : ~Alive(i)

\* C40: for every requested device list, also one that does not start at 0,
\* the per-device statistics table has an entry for the device id of every
\* Success or Failure message a spawned worker emits, so that processing
\* the message raises no KeyError, in LoadBalancer and in ProgressTracker.
C40_EveryDeviceHasStats ==
    \A k \in 1..Len(Emitted) :
        LET r == Emitted[k]
        IN r.type \in {"success", "failure"} =>
               /\ r.gpu_id \in DOMAIN NewLoadBalancer(gpus).gpu_stats
               /\ ~ProcessResult(NewLoadBalancer(gpus), r).raised
               /\ ~TrackerProcessResult(
                       NewProgressTracker(Len(files), Len(gpus)), r).raised

============================================================================
